---- MODULE Spec2Model ----
(***************************************************************************)
(* A model of python/tri_mesh_viewer.py: TextureMap, the per-corner        *)
(* attribute replication, MaterialLibrary and the ViewerBase buffer /      *)
(* ghost / overlay lifecycle.                                              *)
(*                                                                         *)
(* Widgets of the rendering library (materials, buffer attributes,         *)
(* geometries, meshes) live in `heap`, one dictionary per widget class.    *)
(* A widget's identity is the pair <<tag, n>>: it is the n-th widget       *)
(* constructed under that tag (a material's mangled name, a buffer's       *)
(* attribute key, a mesh's role).  `closed` counts the calls of close()    *)
(* on the widget.                                                          *)
(***************************************************************************)
EXTENDS Integers, Sequences, FiniteSets, TLC

VARIABLES lib, heap, viewer, renderer, pc, ret, issued, scope, attr, tm

vars == <<lib, heap, viewer, renderer, pc, ret, issued, scope, attr, tm>>

(***************************************************************************)
(* Bounds of the model.                                                    *)
(***************************************************************************)
MaxMats == 3

(***************************************************************************)
(* Python values.                                                          *)
(***************************************************************************)
None == 0
NoAttr == -1

\* None where a material, or another widget, is expected.
NoMat == <<<<"none", FALSE, None>>, 0>>
NoObj == <<"none", 0>>

\* The model_ids of the textures handed to the library.
TexIds == {1, 2}

EmptyDict == [k \in {} |-> None]

DictPut(d, k, v) == [x \in (DOMAIN d) \cup {k} |-> IF x = k THEN v ELSE d[x]]

DictPop(d, k) == [x \in (DOMAIN d) \ {k} |-> d[x]]

\* The identity of the next widget constructed under `tag`.
Fresh(widgets, tag) == <<tag, Cardinality({w \in DOMAIN widgets : w[1] = tag}) + 1>>

(***************************************************************************)
(* MaterialLibrary.                                                        *)
(***************************************************************************)

\* The constructor arguments of a material: the entries _colorTexArgs sets.
\* A key that _colorTexArgs leaves out keeps the widget's default.
ColorTexArgs(useVertexColors, textureMapDataTex, solidColor) ==
    [vertexColors |-> IF useVertexColors THEN "VertexColors" ELSE "NoColors",
     map          |-> textureMapDataTex,
     color        |-> IF (useVertexColors = FALSE) /\ (textureMapDataTex = None)
                      THEN solidColor ELSE "default"]

\* A name that records only whether a texture is present, not which one.
MangledMaterialNameAnyTex(isGhost, useVertexColors, textureMapDataTex) ==
    LET category == IF isGhost THEN "ghost" ELSE "solid"
    IN  IF textureMapDataTex = None
        THEN <<category, useVertexColors, None>>
        ELSE <<"solid", useVertexColors, 1>>

\* The f-string of _mangledMaterialName as a triple: an untextured name is
\* '<category>_vc<flag>', a textured one 'solid_vc<flag>_tex<model_id>'.
MangledMaterialName(isGhost, useVertexColors, textureMapDataTex) ==
    LET category == IF isGhost THEN "ghost" ELSE "solid"
    IN  IF textureMapDataTex = None
        THEN <<category, useVertexColors, None>>
        ELSE <<"solid", useVertexColors, textureMapDataTex>>

\* hasattr(material, 'map'): a line material has no such trait.
ExtractMaterialDescriptors(material) ==
    <<material.vertexColors = "VertexColors",
      IF material.map # NoAttr THEN material.map ELSE None>>

MangledNameForMaterial(isGhost, material) ==
    LET d == ExtractMaterialDescriptors(material)
    IN  MangledMaterialName(isGhost, d[1], d[2])

\* pythreejs.LineBasicMaterial(**args) / pythreejs.MeshLambertMaterial(**args)
NewMaterial(isLineMesh, args, transparent, opacity) ==
    [cls          |-> IF isLineMesh THEN "LineBasicMaterial" ELSE "MeshLambertMaterial",
     vertexColors |-> args.vertexColors,
     map          |-> IF isLineMesh THEN NoAttr ELSE args.map,
     color        |-> args.color,
     transparent  |-> transparent,
     opacity      |-> opacity,
     closed       |-> 0]

CloseMat(H, m) == [H EXCEPT !.mats[m].closed = @ + 1]

\* MaterialLibrary.material: the cached instance, created on first request.
LibMaterial(L, H, useVertexColors, textureMapDataTex) ==
    LET name == MangledMaterialName(FALSE, useVertexColors, textureMapDataTex)
    IN  IF name \notin DOMAIN L.materials
        THEN LET args == ColorTexArgs(useVertexColors, textureMapDataTex,
                                      IF L.isLineMesh THEN "black" ELSE "lightgray")
                 id   == Fresh(H.mats, name)
             IN  [lib  |-> [L EXCEPT !.materials = DictPut(@, name, id)],
                  heap |-> [H EXCEPT !.mats = DictPut(@, id, NewMaterial(L.isLineMesh, args, FALSE, 100))],
                  ret  |-> id]
        ELSE [lib |-> L, heap |-> H, ret |-> L.materials[name]]

\* MaterialLibrary.ghostMaterial
LibGhostMaterial(L, H, origMaterial) ==
    LET name == MangledNameForMaterial(TRUE, H.mats[origMaterial])
    IN  IF name \notin DOMAIN L.materials
        THEN LET d    == ExtractMaterialDescriptors(H.mats[origMaterial])
                 args == ColorTexArgs(d[1], d[2], "red")
                 id   == Fresh(H.mats, name)
             IN  [lib  |-> [L EXCEPT !.materials = DictPut(@, name, id)],
                  heap |-> [H EXCEPT !.mats = DictPut(@, id, NewMaterial(L.isLineMesh, args, TRUE, 25))],
                  ret  |-> id]
        ELSE [lib |-> L, heap |-> H, ret |-> L.materials[name]]

\* A freeMaterial that closes the material it was given before looking it up.
LibFreeMaterialCloseFirst(L, H, material) ==
    LET name == MangledNameForMaterial(FALSE, H.mats[material])
    IN  IF name \notin DOMAIN L.materials
        THEN [lib |-> L, heap |-> CloseMat(H, material), ret |-> "NotFound"]
        ELSE [lib  |-> [L EXCEPT !.materials = DictPop(@, name)],
              heap |-> CloseMat(H, material),
              ret  |-> "ok"]

\* MaterialLibrary.freeMaterial: ret is "NotFound" when the exception is raised.
LibFreeMaterial(L, H, material) ==
    LET name == MangledNameForMaterial(FALSE, H.mats[material])
    IN  IF name \notin DOMAIN L.materials
        THEN [lib |-> L, heap |-> H, ret |-> "NotFound"]
        ELSE [lib  |-> [L EXCEPT !.materials = DictPop(@, name)],
              heap |-> CloseMat(H, L.materials[name]),
              ret  |-> "ok"]

RECURSIVE CloseAllMats(_, _)
CloseAllMats(H, ms) ==
    IF ms = {} THEN H
    ELSE LET m == CHOOSE x \in ms : TRUE
         IN  CloseAllMats(CloseMat(H, m), ms \ {m})

\* A __del__ that closes every material ever built, cached or not.
LibDelEveryMaterial(L, H) == CloseAllMats(H, DOMAIN H.mats)

\* MaterialLibrary.__del__
LibDel(L, H) == CloseAllMats(H, {L.materials[k] : k \in DOMAIN L.materials})

(***************************************************************************)
(* Initial state: a MaterialLibrary just constructed, no viewer built yet. *)
(* `issued` remembers, per descriptor, the material the last direct call   *)
(* of material() returned and whether that descriptor was asked for more   *)
(* than once.                                                              *)
(***************************************************************************)
EmptyHeap == [mats |-> EmptyDict, bufs |-> EmptyDict, geoms |-> EmptyDict, objs |-> EmptyDict]

NoCall == [op |-> "none", arg |-> None, value |-> NoMat, error |-> "none"]

Descriptors == BOOLEAN \X ({None} \cup TexIds)

NothingIssued == [d \in Descriptors |-> [mat |-> NoMat, calls |-> 0]]

InitLib ==
    /\ lib \in {[materials |-> EmptyDict, isLineMesh |-> b] : b \in BOOLEAN}
    /\ heap = EmptyHeap
    /\ viewer = None
    /\ renderer = None
    /\ pc = "library"
    /\ ret = NoCall
    /\ issued = NothingIssued
    /\ scope = {}
    /\ attr = None
    /\ tm = None

(***************************************************************************)
(* The library's operations called directly.                               *)
(***************************************************************************)
CallMaterial ==
    /\ pc = "library"
    /\ Cardinality(DOMAIN heap.mats) < MaxMats
    /\ \E vc \in BOOLEAN, tex \in {None} \cup TexIds :
        \E r \in {LibMaterial(lib, heap, vc, tex)} :
            /\ lib' = r.lib
            /\ heap' = r.heap
            /\ ret' = [op |-> "material", arg |-> <<vc, tex>>, value |-> r.ret, error |-> "none"]
            /\ issued' = [issued EXCEPT ![<<vc, tex>>] =
                             [mat |-> r.ret, calls |-> IF @.calls = 0 THEN 1 ELSE 2]]
    /\ UNCHANGED <<viewer, renderer, pc, scope, attr, tm>>

CallGhostMaterial ==
    /\ pc = "library"
    /\ Cardinality(DOMAIN heap.mats) < MaxMats
    /\ \E m \in DOMAIN heap.mats :
        \E r \in {LibGhostMaterial(lib, heap, m)} :
            /\ lib' = r.lib
            /\ heap' = r.heap
            /\ ret' = [op |-> "ghostMaterial", arg |-> m, value |-> r.ret, error |-> "none"]
    /\ UNCHANGED <<viewer, renderer, pc, issued, scope, attr, tm>>

CallFreeMaterial ==
    /\ pc = "library"
    /\ \E m \in DOMAIN heap.mats :
        \E r \in {LibFreeMaterial(lib, heap, m)} :
            /\ lib' = r.lib
            /\ heap' = r.heap
            /\ ret' = [op |-> "freeMaterial", arg |-> m, value |-> NoMat,
                       error |-> IF r.ret = "NotFound" THEN "NotFound" ELSE "none"]
    /\ UNCHANGED <<viewer, renderer, pc, issued, scope, attr, tm>>

CallLibDel ==
    /\ pc = "library"
    /\ heap' = LibDel(lib, heap)
    /\ pc' = "deleted"
    /\ ret' = [op |-> "del", arg |-> None, value |-> NoMat, error |-> "none"]
    /\ UNCHANGED <<lib, viewer, renderer, issued, scope, attr, tm>>

NextLib == CallMaterial \/ CallGhostMaterial \/ CallFreeMaterial \/ CallLibDel

SpecLib == InitLib /\ [][NextLib]_vars

(***************************************************************************)
(* ViewerBase.  The mesh shown has NumVertices vertices and NumFaces       *)
(* elements; a field carries its domain type and its element count.        *)
(***************************************************************************)
NumVertices == 4
NumFaces == 2
MaxMainMeshes == 2

NoField == [domainType |-> "NONE", n |-> 0]

\* The fields supplied to the viewer: a per-vertex and a per-element field
\* that fit the mesh, and a per-vertex field of the wrong size.
ScalarFields == {[domainType |-> "PER_VTX", n |-> NumVertices],
                 [domainType |-> "PER_TRI", n |-> NumFaces],
                 [domainType |-> "PER_VTX", n |-> NumFaces]}

VectorFields == {[domainType |-> "PER_VTX", n |-> NumVertices],
                 [domainType |-> "PER_VTX", n |-> NumFaces]}

\* The textures supplied to the viewer (the model_id of textureMap.dataTex).
ViewerTex == {1}

\* VisualizationField.validateSize: TRUE when the field fits the mesh,
\* FALSE when it raises.
ValidateSize(field, numVertices, numElements) ==
    IF field.domainType = "PER_VTX" THEN field.n = numVertices
                                    ELSE field.n = numElements

\* A world: everything a call of the viewer reads and writes, with the
\* exception (if any) that ended the call and the source line that raised
\* it, and the parts of the call whose changes the renderer drew as they
\* were made, rendering not being paused.
World(L, H, V, R) ==
    [lib |-> L, heap |-> H, viewer |-> V, renderer |-> R, error |-> "none", line |-> 0,
     drawn |-> {}]

\* World `after` is what a part of setGeometry made of world `before`: the
\* renderer draws the change unless pauseRendering() was called before.
Drawn(before, after, part) ==
    IF before.renderer.paused \/ (after.heap = before.heap /\ after.viewer = before.viewer)
    THEN after
    ELSE [after EXCEPT !.drawn = @ \cup {part}]

\* pythreejs.BufferAttribute(array)
NewBuf(key) == [key |-> key, alpha |-> 100, closed |-> 0]

\* An attrRaw whose per-face frame has no index array.
AttrRawUnindexedPerTri(textureMap, scalarField) ==
    (IF scalarField.domainType = "PER_TRI" THEN <<"position", "normal">>
                                           ELSE <<"position", "index", "normal">>)
    \o (IF textureMap # None THEN <<"uv">> ELSE <<>>)
    \o (IF scalarField # NoField THEN <<"color">> ELSE <<>>)

\* The keys of attrRaw, in insertion order (lines 208-227).
\* replicateAttributesPerTriCorner replaces every array, the index too, and
\* adds or drops no key.
AttrRaw(textureMap, scalarField) ==
    <<"position", "index", "normal">>
    \o (IF textureMap # None THEN <<"uv">> ELSE <<>>)
    \o (IF scalarField # NoField THEN <<"color">> ELSE <<>>)

RawKeys(attrRaw) == {attrRaw[i] : i \in 1 .. Len(attrRaw)}

stashableKeys == <<"index", "color", "uv">>

(***************************************************************************)
(* ViewerBase.__cleanMeshes                                                *)
(***************************************************************************)
RECURSIVE CloseBufs(_, _)
CloseBufs(H, bs) ==
    IF bs = {} THEN H
    ELSE LET b == CHOOSE x \in bs : TRUE
         IN  CloseBufs([H EXCEPT !.bufs[b].closed = @ + 1], bs \ {b})

\* geometry.exec_three_obj_method('dispose'), close of every attribute,
\* geometry.close()
DisposeGeometry(H, g) ==
    LET attrs == H.geoms[g].attributes
        H1 == [H EXCEPT !.geoms[g].disposed = @ + 1]
        H2 == CloseBufs(H1, {attrs[k] : k \in DOMAIN attrs})
    IN  [H2 EXCEPT !.geoms[g].closed = @ + 1]

\* A pass of the loop that disposes the geometry of every mesh, overlays
\* included.
CleanOneMeshNoSharingTest(H, V, oldMesh) ==
    [DisposeGeometry(H, H.objs[oldMesh].geometry) EXCEPT !.objs[oldMesh].closed = @ + 1]

\* One pass of the loop of __cleanMeshes over oldMesh.  The wireframe and
\* the points mesh share their geometry with the current mesh: only the
\* mesh widget is closed.
CleanOneMesh(H, V, oldMesh) ==
    LET H1 == IF (oldMesh # V.wireframeMesh) /\ (oldMesh # V.pointsMesh)
              THEN DisposeGeometry(H, H.objs[oldMesh].geometry)
              ELSE H
    IN  [H1 EXCEPT !.objs[oldMesh].closed = @ + 1]

RECURSIVE CleanMeshList(_, _, _)
CleanMeshList(H, V, ms) ==
    IF ms = {} THEN H
    ELSE LET m == CHOOSE x \in ms : TRUE
         IN  CleanMeshList(CleanOneMesh(H, V, m), V, ms \ {m})

\* A purge of the ghost group that closes the stashed buffers with it.
CleanGhostMeshesAndStash(W) ==
    [W EXCEPT !.heap = CloseBufs(CleanMeshList(W.heap, W.viewer, W.viewer.ghostMeshes),
                                 {W.viewer.bufferAttributeStash[k] :
                                     k \in DOMAIN W.viewer.bufferAttributeStash}),
              !.viewer.ghostMeshes = {}]

\* __cleanMeshes(self.ghostMeshes)
CleanGhostMeshes(W) ==
    [W EXCEPT !.heap = CleanMeshList(W.heap, W.viewer, W.viewer.ghostMeshes),
              !.viewer.ghostMeshes = {}]

\* __cleanMeshes(self.meshes)
CleanLiveMeshes(W) ==
    [W EXCEPT !.heap = CleanMeshList(W.heap, W.viewer, W.viewer.meshes),
              !.viewer.meshes = {}]

(***************************************************************************)
(* ViewerBase.setGeometry                                                  *)
(***************************************************************************)

\* Lines 237-246: a displayed vector field mesh becomes a ghost too.
GhostVectorField(W) ==
    LET oldVFMesh == W.viewer.vectorFieldMesh
    IN  IF oldVFMesh \in W.viewer.meshes
        THEN LET colors == W.heap.geoms[W.heap.objs[oldVFMesh].geometry].attributes["arrowColor"]
             IN  [W EXCEPT !.viewer.vectorFieldMesh = NoObj,
                           !.heap.mats[W.heap.objs[oldVFMesh].material].transparent = TRUE,
                           !.heap.bufs[colors].alpha = 25,
                           !.viewer.meshes = @ \ {oldVFMesh},
                           !.viewer.ghostMeshes = @ \cup {oldVFMesh}]
        ELSE W

\* A conversion to a ghost that leaves the old mesh in the live group.
GhostMainMeshStaysLive(W, g) ==
    LET oldMesh == W.viewer.currMesh
    IN  [W EXCEPT !.lib = g.lib,
                  !.heap = [g.heap EXCEPT !.objs[oldMesh].material = g.ret],
                  !.viewer.currMesh = NoObj,
                  !.viewer.ghostMeshes = @ \cup {oldMesh}]

\* Lines 231-235, with g what ghostMaterial(oldMesh.material) did and
\* returned.
GhostMainMesh(W, g) ==
    LET oldMesh == W.viewer.currMesh
    IN  [W EXCEPT !.lib = g.lib,
                  !.heap = [g.heap EXCEPT !.objs[oldMesh].material = g.ret],
                  !.viewer.currMesh = NoObj,
                  !.viewer.meshes = @ \ {oldMesh},
                  !.viewer.ghostMeshes = @ \cup {oldMesh}]

\* Lines 230-246: the current mesh becomes a ghost, and with it a displayed
\* vector field mesh.
ConvertToGhost(W) ==
    GhostVectorField(
        GhostMainMesh(W, LibGhostMaterial(W.lib, W.heap,
                                          W.heap.objs[W.viewer.currMesh].material)))

\* An update that purges the ghost group only when no current mesh exists.
GhostOrPurgeKeepGhosts(W, preserveExisting) ==
    IF W.viewer.currMesh # NoObj
    THEN (IF preserveExisting THEN ConvertToGhost(W) ELSE W)
    ELSE CleanGhostMeshes(W)

\* Lines 229-248
GhostOrPurge(W, preserveExisting) ==
    IF preserveExisting /\ (W.viewer.currMesh # NoObj)
    THEN ConvertToGhost(W)
    ELSE CleanGhostMeshes(W)

\* An allocateUpdateOrStashBufferAttribute that leaves the reused buffer in
\* the stash.
AllocateUpdateOrStashNoPop(S, key, attrRaw) ==
    IF S.error # "none" THEN S
    ELSE IF ~((key \notin DOMAIN S.attr) \/ (key \notin DOMAIN S.stash))
    THEN [S EXCEPT !.error = "AssertionError"]
    ELSE IF key \in RawKeys(attrRaw)
    THEN LET S1 == IF key \in DOMAIN S.stash
                   THEN [S EXCEPT !.attr = DictPut(@, key, S.stash[key])]
                   ELSE S
         IN  IF key \in DOMAIN S1.attr
             THEN S1
             ELSE [S1 EXCEPT !.heap.bufs = DictPut(@, Fresh(S1.heap.bufs, key), NewBuf(key)),
                             !.attr = DictPut(@, key, Fresh(S1.heap.bufs, key))]
    ELSE IF key \in DOMAIN S.attr
         THEN [S EXCEPT !.stash = DictPut(@, key, S.attr[key]),
                        !.attr = DictPop(@, key)]
         ELSE S

\* An allocateUpdateOrStashBufferAttribute that never looks into the stash.
AllocateUpdateOrStashNoReuse(S, key, attrRaw) ==
    IF S.error # "none" THEN S
    ELSE IF key \in RawKeys(attrRaw)
    THEN IF key \in DOMAIN S.attr
         THEN S
         ELSE [S EXCEPT !.heap.bufs = DictPut(@, Fresh(S.heap.bufs, key), NewBuf(key)),
                        !.attr = DictPut(@, key, Fresh(S.heap.bufs, key)),
                        !.stash = DictPop(@, key)]
    ELSE IF key \in DOMAIN S.attr
         THEN [S EXCEPT !.stash = DictPut(@, key, S.attr[key]),
                        !.attr = DictPop(@, key)]
         ELSE S

\* An allocateUpdateOrStashBufferAttribute that closes the attribute the
\* frame does not need instead of stashing it.
AllocateUpdateOrDestroy(S, key, attrRaw) ==
    IF S.error # "none" THEN S
    ELSE IF ~((key \notin DOMAIN S.attr) \/ (key \notin DOMAIN S.stash))
    THEN [S EXCEPT !.error = "AssertionError"]
    ELSE IF key \in RawKeys(attrRaw)
    THEN LET S1 == IF key \in DOMAIN S.stash
                   THEN [S EXCEPT !.attr = DictPut(@, key, S.stash[key]),
                                  !.stash = DictPop(@, key)]
                   ELSE S
         IN  IF key \in DOMAIN S1.attr
             THEN S1
             ELSE [S1 EXCEPT !.heap.bufs = DictPut(@, Fresh(S1.heap.bufs, key), NewBuf(key)),
                             !.attr = DictPut(@, key, Fresh(S1.heap.bufs, key))]
    ELSE IF key \in DOMAIN S.attr
         THEN [S EXCEPT !.heap.bufs[S.attr[key]].closed = @ + 1,
                        !.attr = DictPop(@, key)]
         ELSE S

\* allocateUpdateOrStashBufferAttribute on S = [heap, stash, attr, error]:
\* attr is the attribute dictionary being built, stash the viewer's
\* bufferAttributeStash; error is "AssertionError" once the assertion failed.
AllocateUpdateOrStashBufferAttribute(S, key, attrRaw) ==
    IF S.error # "none" THEN S
    ELSE IF ~((key \notin DOMAIN S.attr) \/ (key \notin DOMAIN S.stash))
    THEN [S EXCEPT !.error = "AssertionError"]
    ELSE IF key \in RawKeys(attrRaw)
    THEN LET S1 == IF key \in DOMAIN S.stash
                   THEN [S EXCEPT !.attr = DictPut(@, key, S.stash[key]),
                                  !.stash = DictPop(@, key)]
                   ELSE S
         IN  IF key \in DOMAIN S1.attr
             THEN S1
             ELSE [S1 EXCEPT !.heap.bufs = DictPut(@, Fresh(S1.heap.bufs, key), NewBuf(key)),
                             !.attr = DictPut(@, key, Fresh(S1.heap.bufs, key))]
    ELSE IF key \in DOMAIN S.attr
         THEN [S EXCEPT !.stash = DictPut(@, key, S.attr[key]),
                        !.attr = DictPop(@, key)]
         ELSE S

RECURSIVE StashLoop(_, _, _)
StashLoop(S, keys, attrRaw) ==
    IF keys = <<>> THEN S
    ELSE StashLoop(AllocateUpdateOrStashBufferAttribute(S, Head(keys), attrRaw),
                   Tail(keys), attrRaw)

\* attr.update({k: pythreejs.BufferAttribute(v) for k, v in attrRaw.items()})
RECURSIVE AllocLoop(_, _)
AllocLoop(S, raw) ==
    IF raw = <<>> THEN S
    ELSE AllocLoop([S EXCEPT !.heap.bufs = DictPut(@, Fresh(S.heap.bufs, Head(raw)), NewBuf(Head(raw))),
                             !.attr = DictPut(@, Head(raw), Fresh(S.heap.bufs, Head(raw)))],
                   Tail(raw))

IsStashable(key) == \E i \in 1 .. Len(stashableKeys) : stashableKeys[i] = key

\* Lines 292-295: the geometry over the attributes S.attr, the mesh over it.
NewMainMesh(W, S, material) ==
    LET geom == Fresh(S.heap.geoms, "main")
        m    == Fresh(S.heap.objs, "main")
    IN  [W EXCEPT !.heap = [S.heap EXCEPT
                     !.geoms = DictPut(@, geom, [attributes |-> S.attr, disposed |-> 0, closed |-> 0]),
                     !.objs  = DictPut(@, m, [cls |-> IF W.viewer.isLineMesh THEN "LineSegments" ELSE "Mesh",
                                              geometry |-> geom, material |-> material, closed |-> 0])],
                  !.viewer.bufferAttributeStash = S.stash,
                  !.viewer.currMesh = m,
                  !.viewer.meshes = @ \cup {m}]

\* The call ended by the exception the attribute loop S raised.
Raised(W, S) ==
    [W EXCEPT !.heap = S.heap, !.viewer.bufferAttributeStash = S.stash,
              !.error = S.error, !.line = 259]

IsNotStashable(key) == ~IsStashable(key)

\* Lines 290-295, with S1 the attributes after the loop of lines 286-289.
BuildMeshFrom(W, S1, attrRaw, material) ==
    IF S1.error # "none" THEN Raised(W, S1)
    ELSE NewMainMesh(W, AllocLoop(S1, SelectSeq(attrRaw, IsNotStashable)), material)

\* Lines 282-295: no current mesh, so a mesh and a geometry are built.
BuildMesh(W, attrRaw, material) ==
    BuildMeshFrom(W,
                  StashLoop([heap |-> W.heap, stash |-> W.viewer.bufferAttributeStash,
                             attr |-> EmptyDict, error |-> "none"],
                            SelectSeq(attrRaw, IsStashable), attrRaw),
                  attrRaw, material)

\* Lines 305-306, with S1 the attributes after the loop of lines 302-303.
UpdateMeshFrom(W, S1, material) ==
    LET cur  == W.viewer.currMesh
        geom == W.heap.objs[cur].geometry
    IN  IF S1.error # "none" THEN Raised(W, S1)
        ELSE [W EXCEPT !.heap = [S1.heap EXCEPT !.geoms[geom].attributes = S1.attr,
                                                !.objs[cur].material = material],
                       !.viewer.bufferAttributeStash = S1.stash]

\* Lines 296-306: the current mesh is updated in place.  The arrays of
\* position and normal are replaced, their buffer attributes kept.
UpdateMesh(W, attrRaw, material) ==
    UpdateMeshFrom(W,
                   StashLoop([heap |-> W.heap, stash |-> W.viewer.bufferAttributeStash,
                              attr |-> W.heap.geoms[W.heap.objs[W.viewer.currMesh].geometry].attributes,
                              error |-> "none"],
                             stashableKeys, attrRaw),
                   material)

\* A setGeometry that builds a mesh for every frame.
BuildMeshEveryFrame(W, attrRaw, material) == BuildMesh(W, attrRaw, material)

\* Lines 282-306
BuildOrUpdateMesh(W, attrRaw, material) ==
    IF W.viewer.currMesh = NoObj THEN BuildMesh(W, attrRaw, material)
                                 ELSE UpdateMesh(W, attrRaw, material)

\* A repointing that forgets the points mesh.
RepointWireframeOnly(W) ==
    IF W.viewer.wireframeMesh # NoObj
    THEN [W EXCEPT !.heap.objs[W.viewer.wireframeMesh].geometry =
                       W.heap.objs[W.viewer.currMesh].geometry]
    ELSE W

\* Lines 310-313
RepointOverlays(W) ==
    LET geom == W.heap.objs[W.viewer.currMesh].geometry
        H1 == IF W.viewer.wireframeMesh # NoObj
              THEN [W.heap EXCEPT !.objs[W.viewer.wireframeMesh].geometry = geom]
              ELSE W.heap
        H2 == IF W.viewer.pointsMesh # NoObj
              THEN [H1 EXCEPT !.objs[W.viewer.pointsMesh].geometry = geom]
              ELSE H1
    IN  [W EXCEPT !.heap = H2]

ArrowKeys == {"arrowPos", "arrowVec", "arrowColor"}

\* VectorField.getArrows(vertices, idxs, material, existingMesh): the
\* existing glyph mesh with its arrays replaced, or a new glyph mesh with a
\* geometry of its own; `material` is used when given, else one is made.
GetArrows(H, material, existingMesh) ==
    IF existingMesh # NoObj
    THEN LET colors == H.geoms[H.objs[existingMesh].geometry].attributes["arrowColor"]
         IN  [heap |-> [H EXCEPT !.bufs[colors].alpha = 100], ret |-> existingMesh]
    ELSE LET mat == IF material # NoMat THEN material
                    ELSE Fresh(H.mats, <<"arrow", FALSE, None>>)
             H1 == IF material # NoMat THEN H
                   ELSE [H EXCEPT !.mats = DictPut(@, mat,
                           [cls |-> "ShaderMaterial", vertexColors |-> "NoColors",
                            map |-> NoAttr, color |-> "default", transparent |-> FALSE,
                            opacity |-> 100, closed |-> 0])]
             geom == Fresh(H.geoms, "arrows")
             m    == Fresh(H.objs, "arrows")
         IN  [heap |-> [H1 EXCEPT
                  !.bufs  = [b \in DOMAIN H.bufs \cup {Fresh(H.bufs, k) : k \in ArrowKeys} |->
                               IF b \in DOMAIN H.bufs THEN H.bufs[b] ELSE NewBuf(b[1])],
                  !.geoms = DictPut(@, geom, [attributes |-> [k \in ArrowKeys |-> Fresh(H.bufs, k)],
                                              disposed |-> 0, closed |-> 0]),
                  !.objs  = DictPut(@, m, [cls |-> "Mesh", geometry |-> geom,
                                           material |-> mat, closed |-> 0])],
              ret |-> m]

\* Lines 324-333, with a what getArrows did and returned.
AttachArrows(W, a) ==
    [W EXCEPT !.heap = a.heap,
              !.viewer.vectorFieldMesh = a.ret,
              !.viewer.arrowMaterial = a.heap.objs[a.ret].material,
              !.viewer.meshes = @ \cup {a.ret}]

\* An update of the vector field that leaves a glyph mesh nobody asked for
\* in the live group.
UpdateVectorFieldNoHide(W) ==
    IF W.viewer.vectorField # NoField
    THEN IF ~ValidateSize(W.viewer.vectorField, NumVertices, NumFaces)
         THEN [W EXCEPT !.error = "SizeMismatch", !.line = 322]
         ELSE AttachArrows(W, GetArrows(W.heap, W.viewer.arrowMaterial,
                                        W.viewer.vectorFieldMesh))
    ELSE W

\* Lines 318-336: build or update the vector field mesh, or hide it.
UpdateVectorField(W) ==
    LET vf == W.viewer.vectorField
    IN  IF vf # NoField
        THEN IF ~ValidateSize(vf, NumVertices, NumFaces)
             THEN [W EXCEPT !.error = "SizeMismatch", !.line = 322]
             ELSE AttachArrows(W, GetArrows(W.heap, W.viewer.arrowMaterial,
                                            W.viewer.vectorFieldMesh))
        ELSE [W EXCEPT !.viewer.meshes = @ \ {W.viewer.vectorFieldMesh}]

\* Lines 278-280
PauseRendering(W) ==
    IF W.viewer.avoidRedrawFlicker THEN [W EXCEPT !.renderer.paused = TRUE] ELSE W

\* Lines 338-340
ResumeRendering(W) ==
    IF W.viewer.avoidRedrawFlicker THEN [W EXCEPT !.renderer.paused = FALSE] ELSE W

\* Lines 338-340, unless the vector field raised.
FinishUpdate(W) == IF W.error # "none" THEN W ELSE ResumeRendering(W)

\* Lines 315-340
VectorFieldAndResume(W) == FinishUpdate(Drawn(W, UpdateVectorField(W), "vectorField"))

\* Lines 308-340, unless the attribute loop raised.
OverlaysAndVectorField(W) ==
    IF W.error # "none" THEN W
    ELSE VectorFieldAndResume(Drawn(W, RepointOverlays(W), "overlays"))

\* Lines 282-340
MeshAndOverlays(W, attrRaw, material) ==
    OverlaysAndVectorField(Drawn(W, BuildOrUpdateMesh(W, attrRaw, material), "mesh"))

\* Lines 278-340, with m what materialLibrary.material did and returned.
MeshWithMaterial(W, m, attrRaw) ==
    MeshAndOverlays(PauseRendering([W EXCEPT !.lib = m.lib, !.heap = m.heap]),
                    attrRaw, m.ret)

\* Lines 250-340
MaterialAndMesh(W, textureMap, useVertexColors, attrRaw) ==
    MeshWithMaterial(W, LibMaterial(W.lib, W.heap, useVertexColors, textureMap), attrRaw)

\* Lines 229-340, after the scalar field was validated.
SetGeometryBody(W, preserveExisting, textureMap, useVertexColors, attrRaw) ==
    MaterialAndMesh(Drawn(W, GhostOrPurge(W, preserveExisting), "ghosts"),
                    textureMap, useVertexColors, attrRaw)

\* ViewerBase.setGeometry
SetGeometry(W, preserveExisting, textureMap, scalarField, vectorField) ==
    LET W0 == [W EXCEPT !.viewer.scalarField = scalarField,
                        !.viewer.vectorField = vectorField]
    IN  IF (scalarField # NoField) /\ ~ValidateSize(scalarField, NumVertices, NumFaces)
        THEN [W0 EXCEPT !.error = "SizeMismatch", !.line = 219]
        ELSE SetGeometryBody(W0, preserveExisting, textureMap, scalarField # NoField,
                             AttrRaw(textureMap, scalarField))

(***************************************************************************)
(* Overlays.                                                               *)
(***************************************************************************)
OverlayMaterial(cls) ==
    [cls |-> cls, vertexColors |-> "NoColors", map |-> None, color |-> "black",
     transparent |-> FALSE, opacity |-> 100, closed |-> 0]

\* ViewerBase.wireframeMaterial
WireframeMaterial(W) ==
    IF W.viewer.cachedWireframeMaterial = NoMat
    THEN LET id == Fresh(W.heap.mats, <<"wireframe", FALSE, None>>)
         IN  [W EXCEPT !.heap.mats = DictPut(@, id, OverlayMaterial("MeshBasicMaterial")),
                       !.viewer.cachedWireframeMaterial = id]
    ELSE W

\* ViewerBase.pointsMaterial
PointsMaterial(W) ==
    IF W.viewer.cachedPointsMaterial = NoMat
    THEN LET id == Fresh(W.heap.mats, <<"points", FALSE, None>>)
         IN  [W EXCEPT !.heap.mats = DictPut(@, id, OverlayMaterial("PointsMaterial")),
                       !.viewer.cachedPointsMaterial = id]
    ELSE W

\* pythreejs.Mesh / pythreejs.Points (geometry = self.currMesh.geometry, material)
NewOverlayMesh(W, cls, role, material) ==
    LET id == Fresh(W.heap.objs, role)
    IN  [heap |-> [W.heap EXCEPT !.objs = DictPut(@, id,
                      [cls |-> cls, geometry |-> W.heap.objs[W.viewer.currMesh].geometry,
                       material |-> material, closed |-> 0])],
         ret |-> id]

\* Line 356, once wireframeMaterial() has returned.
NewWireframeMesh(W) ==
    LET n == NewOverlayMesh(W, "Mesh", "wireframe", W.viewer.cachedWireframeMaterial)
    IN  [W EXCEPT !.heap = n.heap, !.viewer.wireframeMesh = n.ret]

\* A showWireframe that builds a wireframe mesh whenever none is displayed.
EnsureWireframeMeshDisplayed(W) ==
    IF W.viewer.wireframeMesh \notin W.viewer.meshes
    THEN NewWireframeMesh(WireframeMaterial(W))
    ELSE W

\* Lines 354-356: the wireframe mesh, built on first use.
EnsureWireframeMesh(W) ==
    IF W.viewer.wireframeMesh = NoObj THEN NewWireframeMesh(WireframeMaterial(W)) ELSE W

\* Line 368, once pointsMaterial() has returned.
NewPointsMesh(W) ==
    LET n == NewOverlayMesh(W, "Points", "points", W.viewer.cachedPointsMaterial)
    IN  [W EXCEPT !.heap = n.heap, !.viewer.pointsMesh = n.ret]

\* Lines 366-368: the points mesh, built on first use.
EnsurePointsMesh(W) ==
    IF W.viewer.pointsMesh = NoObj THEN NewPointsMesh(PointsMaterial(W)) ELSE W

\* Lines 357-358
AttachWireframe(W) == [W EXCEPT !.viewer.meshes = @ \cup {W.viewer.wireframeMesh}]

\* Lines 369-370
AttachPoints(W) == [W EXCEPT !.viewer.meshes = @ \cup {W.viewer.pointsMesh}]

\* ViewerBase.showWireframe
ShowWireframe(W, shouldShow) ==
    [(IF shouldShow
      THEN AttachWireframe(EnsureWireframeMesh(W))
      ELSE [W EXCEPT !.viewer.meshes = @ \ {W.viewer.wireframeMesh}])
     EXCEPT !.viewer.shouldShowWireframe = shouldShow]

\* ViewerBase.showPoints
ShowPoints(W, shouldShow) ==
    IF shouldShow
    THEN AttachPoints(EnsurePointsMesh(W))
    ELSE [W EXCEPT !.viewer.meshes = @ \ {W.viewer.pointsMesh}]

(***************************************************************************)
(* ViewerBase.__del__                                                      *)
(***************************************************************************)

\* Lines 439-441: the meshes that exist but are hidden join the live group.
AddHiddenMeshes(W) ==
    [W EXCEPT !.viewer.meshes = @ \cup
        {m \in {W.viewer.vectorFieldMesh, W.viewer.wireframeMesh, W.viewer.pointsMesh} :
            m # NoObj}]

\* Lines 444-450 and 462: the cached overlay materials, the stashed buffers
\* and the renderer are closed.
CloseCachedAndStash(W) ==
    LET cached == {m \in {W.viewer.cachedWireframeMaterial,
                          W.viewer.cachedPointsMaterial} : m # NoMat}
        stash == W.viewer.bufferAttributeStash
    IN  [W EXCEPT !.heap = CloseBufs(CloseAllMats(W.heap, cached),
                                     {stash[k] : k \in DOMAIN stash}),
                  !.renderer.closed = @ + 1]

ViewerDel(W) ==
    CloseCachedAndStash(CleanLiveMeshes(AddHiddenMeshes(CleanGhostMeshes(W))))

(***************************************************************************)
(* The viewer: its state before the constructor's own update (lines        *)
(* 139-182), and its operations.                                           *)
(***************************************************************************)
NewViewer(isLineMesh) ==
    [isLineMesh |-> isLineMesh,
     avoidRedrawFlicker |-> FALSE,
     meshes |-> {},
     ghostMeshes |-> {},
     bufferAttributeStash |-> EmptyDict,
     currMesh |-> NoObj,
     wireframeMesh |-> NoObj,
     pointsMesh |-> NoObj,
     vectorFieldMesh |-> NoObj,
     cachedWireframeMaterial |-> NoMat,
     cachedPointsMaterial |-> NoMat,
     shouldShowWireframe |-> FALSE,
     scalarField |-> NoField,
     vectorField |-> NoField,
     arrowMaterial |-> NoMat]

\* The optional features of the viewer, and the combinations of them a
\* behaviour draws its inputs from.
Features == {"line", "texture", "vector", "wireframe", "points", "flicker"}

Scopes == {{}, {"line"}, {"texture"}, {"vector"}, {"wireframe"}, {"points"}, {"flicker"},
           {"line", "texture"}, {"vector", "flicker"}, {"wireframe", "points"},
           {"vector", "wireframe"}}

InScope(feature, values) == IF feature \in scope THEN values ELSE {}

Init ==
    /\ scope \in Scopes
    /\ lib = [materials |-> EmptyDict, isLineMesh |-> "line" \in scope]
    /\ viewer = NewViewer("line" \in scope)
    /\ heap = EmptyHeap
    /\ renderer = [paused |-> FALSE, closed |-> 0]
    /\ pc = "init"
    /\ ret = NoCall
    /\ issued = NothingIssued
    /\ attr = None
    /\ tm = None

Commit(W) ==
    /\ lib' = W.lib
    /\ heap' = W.heap
    /\ viewer' = W.viewer
    /\ renderer' = W.renderer

MainMeshes(H) == {m \in DOMAIN H.objs : m[1] = "main"}

\* What a call of setGeometry is seen to do: its arguments, the exception it
\* raised and the line that raised it, the stash keys whose buffer it took
\* out of the stash, and the parts of it the renderer drew one by one.
SetGeometryCall(W, preserveExisting, textureMap) ==
    [op |-> "setGeometry",
     arg |-> [preserveExisting |-> preserveExisting, textureMap |-> textureMap],
     value |-> (DOMAIN viewer.bufferAttributeStash) \ (DOMAIN W.viewer.bufferAttributeStash),
     error |-> W.error,
     line |-> W.line,
     drawn |-> W.drawn]

\* Line 183: the constructor's update(True, obj, ...).
Construct ==
    /\ pc = "init"
    /\ \E tex \in {None} \cup InScope("texture", ViewerTex),
          sf \in {NoField} \cup ScalarFields,
          vf \in {NoField} \cup InScope("vector", VectorFields) :
         \E W \in {SetGeometry(World(lib, heap, viewer, renderer), TRUE, tex, sf, vf)} :
             /\ Commit(W)
             /\ pc' = IF W.error = "none" THEN "ready" ELSE "failed"
             /\ ret' = SetGeometryCall(W, TRUE, tex)
    /\ UNCHANGED <<issued, scope, attr, tm>>

\* ViewerBase.update / setGeometry on the same mesh.
Update ==
    /\ pc = "ready"
    /\ \E preserve \in BOOLEAN,
          tex \in {None} \cup InScope("texture", ViewerTex),
          sf \in {NoField} \cup ScalarFields,
          vf \in {NoField} \cup InScope("vector", VectorFields) :
         /\ preserve => Cardinality(MainMeshes(heap)) < MaxMainMeshes
         /\ \E W \in {SetGeometry(World(lib, heap, viewer, renderer), preserve, tex, sf, vf)} :
                /\ Commit(W)
                /\ ret' = SetGeometryCall(W, preserve, tex)
    /\ UNCHANGED <<pc, issued, scope, attr, tm>>

CallShowWireframe ==
    /\ pc = "ready"
    /\ "wireframe" \in scope
    /\ \E shouldShow \in BOOLEAN :
         /\ Commit(ShowWireframe(World(lib, heap, viewer, renderer), shouldShow))
         /\ ret' = [op |-> "showWireframe", arg |-> shouldShow, value |-> NoMat, error |-> "none"]
    /\ UNCHANGED <<pc, issued, scope, attr, tm>>

CallShowPoints ==
    /\ pc = "ready"
    /\ "points" \in scope
    /\ \E shouldShow \in BOOLEAN :
         /\ Commit(ShowPoints(World(lib, heap, viewer, renderer), shouldShow))
         /\ ret' = [op |-> "showPoints", arg |-> shouldShow, value |-> NoMat, error |-> "none"]
    /\ UNCHANGED <<pc, issued, scope, attr, tm>>

SetAvoidRedrawFlicker ==
    /\ pc = "ready"
    /\ "flicker" \in scope
    /\ \E b \in BOOLEAN : viewer' = [viewer EXCEPT !.avoidRedrawFlicker = b]
    /\ UNCHANGED <<lib, heap, renderer, pc, ret, issued, scope, attr, tm>>

\* __del__ also runs on a viewer whose constructor raised.
Teardown ==
    /\ pc \in {"ready", "failed"}
    /\ Commit(ViewerDel(World(lib, heap, viewer, renderer)))
    /\ pc' = "torn"
    /\ ret' = [op |-> "del", arg |-> None, value |-> NoMat, error |-> "none"]
    /\ UNCHANGED <<issued, scope, attr, tm>>

Next ==
    \/ Construct
    \/ Update
    \/ CallShowWireframe
    \/ CallShowPoints
    \/ SetAvoidRedrawFlicker
    \/ Teardown

Spec == Init /\ [][Next]_vars


(***************************************************************************)
(* numpy arrays and floats, as TextureMap and                              *)
(* replicateAttributesPerTriCorner use them.  A one-dimensional array is a *)
(* sequence, read at the 0-based position i as a[i + 1]; an image is a     *)
(* function of 0-based row and column.  UV coordinates are exact rationals *)
(* <<numerator, denominator>> in lowest terms, and NaN, the result of 0/0,  *)
(* is <<0, 0>>.                                                            *)
(***************************************************************************)
MaxSide == 5
PadValue == 128

NaN == <<0, 0>>

Max(a, b) == IF a >= b THEN a ELSE b

RECURSIVE Gcd(_, _)
Gcd(a, b) == IF b = 0 THEN a ELSE Gcd(b, a % b)

Abs(a) == IF a < 0 THEN -a ELSE a

Rat(n, d) ==
    LET g == Gcd(Abs(n), Abs(d))
        sgn == IF d < 0 THEN -1 ELSE 1
    IN  <<sgn * (n \div g), sgn * (d \div g)>>

RatSub(x, y) == Rat(x[1] * y[2] - y[1] * x[2], x[2] * y[2])

RatMul(x, y) == IF x = NaN THEN NaN ELSE Rat(x[1] * y[1], x[2] * y[2])

RatDiv(x, y) == IF y[1] = 0 THEN NaN ELSE Rat(x[1] * y[2], x[2] * y[1])

RatLeq(x, y) == x[1] * y[2] <= y[1] * x[2]

\* np.min / np.max along axis 0 of column k of a (#V, 2) array.
ColumnMin(uv, k) ==
    uv[CHOOSE i \in DOMAIN uv : \A j \in DOMAIN uv : RatLeq(uv[i][k], uv[j][k])][k]

ColumnMax(uv, k) ==
    uv[CHOOSE i \in DOMAIN uv : \A j \in DOMAIN uv : RatLeq(uv[j][k], uv[i][k])][k]

RECURSIVE Exp2(_)
Exp2(k) == IF k = 0 THEN 1 ELSE 2 * Exp2(k - 1)

\* np.ceil(np.log2(s)): the least k with 2^k >= s.
RECURSIVE CeilLog2From(_, _)
CeilLog2From(k, s) == IF Exp2(k) >= s THEN k ELSE CeilLog2From(k + 1, s)

CeilLog2(s) == CeilLog2From(0, s)

Height(tex) == Cardinality(DOMAIN tex)

Width(tex) == Cardinality(DOMAIN tex[0])

\* np.pad(tex, [(before0, after0), (before1, after1), (0, 0)], 'constant',
\*        constant_values=value)
NpPad(tex, padWidth, value) ==
    LET h == Height(tex)
        w == Width(tex)
        before0 == padWidth[1][1]
        before1 == padWidth[2][1]
        rows == before0 + h + padWidth[1][2]
        cols == before1 + w + padWidth[2][2]
    IN  [r \in 0 .. rows - 1 |->
           [c \in 0 .. cols - 1 |->
              IF /\ r >= before0 /\ r < before0 + h
                 /\ c >= before1 /\ c < before1 + w
              THEN tex[r - before0][c - before1]
              ELSE value]]

(***************************************************************************)
(* TextureMap.__init__                                                     *)
(***************************************************************************)
\* The padding on the bottom and the right instead.
PadWidthBottomRight(h, w, s) == <<<<0, s - h>>, <<0, s - w>>>>

\* The pad widths handed to np.pad: s - h rows before (top), s - w columns
\* after (right).
PadWidth(h, w, s) == <<<<s - h, 0>>, <<0, s - w>>>>

NormalizeUV(uv) ==
    LET lo == <<ColumnMin(uv, 1), ColumnMin(uv, 2)>>
        shifted == [i \in DOMAIN uv |-> <<RatSub(uv[i][1], lo[1]), RatSub(uv[i][2], lo[2])>>]
        dim == <<ColumnMax(shifted, 1), ColumnMax(shifted, 2)>>
    IN  [i \in DOMAIN uv |-> <<RatDiv(shifted[i][1], dim[1]), RatDiv(shifted[i][2], dim[2])>>]

\* The side of the padded texture.
PaddedSide(h, w, powerOfTwo) ==
    LET s == Max(w, h)
    IN  IF powerOfTwo THEN Exp2(CeilLog2(s)) ELSE s

\* np.array([float(w) / s, float(h) / s])
UVScale(h, w, s) == <<Rat(w, s), Rat(h, s)>>

NewTextureMap(uv, tex, normalizeUV, powerOfTwo) ==
    LET uv1 == IF normalizeUV THEN NormalizeUV(uv) ELSE uv
        h == Height(tex)
        w == Width(tex)
        s == PaddedSide(h, w, powerOfTwo)
        padded == NpPad(tex, PadWidth(h, w, s), PadValue)
        scale == UVScale(h, w, s)
    IN  [uv |-> [i \in DOMAIN uv1 |-> <<RatMul(uv1[i][1], scale[1]), RatMul(uv1[i][2], scale[2])>>],
         dataTex |-> [data |-> padded, flipY |-> TRUE]]

\* The images: pixel (r, c) of an h x w image carries the number of its
\* position, which is below the value of the padding.
Image(h, w) == [r \in 0 .. h - 1 |-> [c \in 0 .. w - 1 |-> r * MaxSide + c]]

UVCoords == {Rat(0, 1), Rat(1, 2), Rat(1, 1)}

UVArrays == [1 .. 2 -> UVCoords \X UVCoords]

InitTexture ==
    /\ tm \in {[uv |-> uv, tex |-> Image(h, w)] :
                  uv \in UVArrays, h \in 1 .. MaxSide, w \in 1 .. MaxSide}
    /\ pc = "TextureMap"
    /\ ret = NoCall
    /\ attr = None
    /\ lib = None /\ heap = None /\ viewer = None /\ renderer = None
    /\ issued = NothingIssued /\ scope = {}

ConstructTextureMap ==
    /\ pc = "TextureMap"
    /\ \E normalizeUV \in BOOLEAN, powerOfTwo \in BOOLEAN :
         /\ tm' = NewTextureMap(tm.uv, tm.tex, normalizeUV, powerOfTwo)
         /\ ret' = [op |-> "TextureMap",
                    arg |-> [uv |-> tm.uv, tex |-> tm.tex,
                             normalizeUV |-> normalizeUV, powerOfTwo |-> powerOfTwo],
                    value |-> NoMat, error |-> "none"]
    /\ pc' = "textured"
    /\ UNCHANGED <<lib, heap, viewer, renderer, issued, scope, attr>>

NextTexture == ConstructTextureMap

SpecTexture == InitTexture /\ [][NextTexture]_vars

(***************************************************************************)
(* replicateAttributesPerTriCorner.  The dictionary `attr` keeps its keys  *)
(* in insertion order, as setGeometry builds it.                           *)
(***************************************************************************)
FaceCounts == {1, 2}

\* attr[key][idxs]: fancy indexing, an IndexError when an index is out of
\* bounds.
Take(a, idxs) ==
    IF \E j \in DOMAIN idxs : idxs[j] >= Len(a)
    THEN [value |-> a, error |-> "IndexError"]
    ELSE [value |-> [j \in DOMAIN idxs |-> a[idxs[j] + 1]], error |-> "none"]

\* np.repeat(a, 3, axis=0)
Repeat3(a) == [j \in 1 .. 3 * Len(a) |-> a[((j - 1) \div 3) + 1]]

\* np.arange(n)
Arange(n) == [j \in 1 .. n |-> j - 1]

\* The loop over the keys of attr, from the i-th key on.
RECURSIVE ReplicateLoop(_, _, _, _)
ReplicateLoop(A, idxs, perTriColor, i) ==
    IF i > Len(A.keys) THEN [attr |-> A, error |-> "none"]
    ELSE LET key == A.keys[i]
         IN  IF perTriColor /\ key = "color"
             THEN ReplicateLoop([A EXCEPT !.at["color"] = Repeat3(A.at["color"])],
                                idxs, perTriColor, i + 1)
             ELSE LET t == Take(A.at[key], idxs)
                  IN  IF t.error # "none" THEN [attr |-> A, error |-> t.error]
                      ELSE ReplicateLoop([A EXCEPT !.at[key] = t.value],
                                         idxs, perTriColor, i + 1)

ReplicateAttributesPerTriCorner(A, perTriColor) ==
    LET idxs == A.at["index"]
        looped == ReplicateLoop(A, idxs, perTriColor, 1)
    IN  IF looped.error # "none" THEN looped
        ELSE [attr |-> [looped.attr EXCEPT !.at["index"] = Arange(Len(idxs))],
              error |-> "none"]

\* The value of attribute key at vertex (or face) i.
Datum(key, i) == <<key, i>>

\* attrRaw as setGeometry builds it for a mesh of N vertices and the face
\* index array idxs, with a color per face or per vertex.
AttrRawArrays(N, idxs, hasUV, numColors) ==
    LET keys == <<"position", "index", "normal">>
                  \o (IF hasUV THEN <<"uv">> ELSE <<>>) \o <<"color">>
    IN  [keys |-> keys,
         at |-> [k \in {keys[i] : i \in DOMAIN keys} |->
                   IF k = "index" THEN idxs
                   ELSE IF k = "color" THEN [i \in 1 .. numColors |-> Datum(k, i - 1)]
                   ELSE [i \in 1 .. N |-> Datum(k, i - 1)]]]

InitReplicate ==
    /\ \E N \in 1 .. NumVertices, F \in FaceCounts, hasUV \in BOOLEAN, perTriColor \in BOOLEAN :
         \E idxs \in [1 .. 3 * F -> 0 .. N - 1] :
            /\ attr = AttrRawArrays(N, idxs, hasUV, IF perTriColor THEN F ELSE N)
            /\ ret = [op |-> "call", arg |-> [N |-> N, F |-> F, perTriColor |-> perTriColor],
                      value |-> NoMat, error |-> "none"]
    /\ pc = "replicate"
    /\ tm = None
    /\ lib = None /\ heap = None /\ viewer = None /\ renderer = None
    /\ issued = NothingIssued /\ scope = {}

Replicate ==
    /\ pc = "replicate"
    /\ LET r == ReplicateAttributesPerTriCorner(attr, ret.arg.perTriColor)
       IN  /\ attr' = r.attr
           /\ ret' = [op |-> "replicateAttributesPerTriCorner",
                      arg |-> [N |-> ret.arg.N, F |-> ret.arg.F,
                               perTriColor |-> ret.arg.perTriColor, attr |-> attr],
                      value |-> NoMat, error |-> r.error]
    /\ pc' = "replicated"
    /\ UNCHANGED <<lib, heap, viewer, renderer, issued, scope, tm>>

NextReplicate == Replicate

SpecReplicate == InitReplicate /\ [][NextReplicate]_vars

(***************************************************************************)
(* Properties of MaterialLibrary (checked under SpecLib).                  *)
(***************************************************************************)
LibClasses == {"LineBasicMaterial", "MeshLambertMaterial"}

Unclosed(m) == heap.mats[m].closed = 0

\* The descriptors under which material() last returned m.
IssuedFor(m) == {d \in Descriptors : issued[d].mat = m}

\* C2: ghostMaterial(orig), for orig a material returned by material() under
\* any descriptor, returns a translucent (opacity 0.25) material kept under a
\* key other than the solid one, so never the instance material() returns for
\* that descriptor; two calls in a row on the same original return the same
\* ghost.
C2_GhostIsDistinctTranslucent ==
    [][(ret'.op = "ghostMaterial" /\ IssuedFor(ret'.arg) # {} /\ Unclosed(ret'.arg))
        => /\ heap'.mats[ret'.value].transparent
           /\ heap'.mats[ret'.value].opacity = 25
           /\ ret'.value # ret'.arg
           /\ \A d \in IssuedFor(ret'.arg) :
                /\ MangledMaterialName(FALSE, d[1], d[2]) \in DOMAIN lib'.materials
                /\ lib'.materials[MangledMaterialName(FALSE, d[1], d[2])] # ret'.value
           /\ (ret.op = "ghostMaterial" /\ ret.arg = ret'.arg => ret'.value = ret.value)]_vars

\* C3: material() returns the cached instance of its descriptor: the same
\* open instance for the same descriptor, distinct instances for descriptors
\* that differ in useVertexColors or in texture identity, and every open
\* library material is the single cache entry of its key.
C3_MaterialCachedPerDescriptor ==
    /\ (ret.op = "material" =>
           /\ MangledMaterialName(FALSE, ret.arg[1], ret.arg[2]) \in DOMAIN lib.materials
           /\ ret.value = lib.materials[MangledMaterialName(FALSE, ret.arg[1], ret.arg[2])]
           /\ Unclosed(ret.value))
    /\ \A d \in Descriptors :
           (issued[d].mat # NoMat /\ Unclosed(issued[d].mat)) =>
               /\ MangledMaterialName(FALSE, d[1], d[2]) \in DOMAIN lib.materials
               /\ lib.materials[MangledMaterialName(FALSE, d[1], d[2])] = issued[d].mat
    /\ \A d1, d2 \in Descriptors :
           (d1 # d2 /\ issued[d1].mat # NoMat /\ issued[d2].mat # NoMat
              /\ Unclosed(issued[d1].mat) /\ Unclosed(issued[d2].mat))
           => issued[d1].mat # issued[d2].mat
    /\ \A k1, k2 \in DOMAIN lib.materials :
           lib.materials[k1] = lib.materials[k2] => k1 = k2
    /\ \A m \in DOMAIN heap.mats :
           (heap.mats[m].cls \in LibClasses /\ Unclosed(m))
           => \E k \in DOMAIN lib.materials : lib.materials[k] = m

\* A repeated request was served by the first instance built for its
\* descriptor, while two textures that differ only in identity both have an
\* open material.
C3_Witness ==
    /\ ret.op = "material"
    /\ \E vc \in BOOLEAN :
         /\ issued[<<vc, 1>>].calls = 2
         /\ issued[<<vc, 1>>].mat[2] = 1
         /\ issued[<<vc, 2>>].mat # NoMat
         /\ Unclosed(issued[<<vc, 1>>].mat) /\ Unclosed(issued[<<vc, 2>>].mat)

\* C4: freeMaterial on a material whose key is not cached raises the
\* not-found error (and only then), and the failed call changes neither the
\* cache nor any material: nothing is removed, nothing is closed.
C4_FreeNotFoundLeavesCache ==
    [][ret'.op = "freeMaterial" =>
          /\ (MangledNameForMaterial(FALSE, heap.mats[ret'.arg]) \notin DOMAIN lib.materials
                <=> ret'.error = "NotFound")
          /\ (ret'.error = "NotFound" => lib' = lib /\ heap' = heap)]_vars

\* A free failed while the cache held an open material.
C4_Witness ==
    /\ ret.op = "freeMaterial"
    /\ ret.error = "NotFound"
    /\ \E k \in DOMAIN lib.materials : Unclosed(lib.materials[k])


\* The materials the cache holds.
Cached(L) == {L.materials[k] : k \in DOMAIN L.materials}

\* C11: once the library is torn down, every material that was in the cache
\* is closed and every material the library ever built has been closed
\* exactly once, one freed earlier by freeMaterial included; before the
\* teardown a material is open while cached and closed once when it has left
\* the cache.
C11_LibraryTeardownClosesOnce ==
    /\ pc = "deleted" =>
          /\ \A m \in Cached(lib) : heap.mats[m].closed >= 1
          /\ \A m \in DOMAIN heap.mats : heap.mats[m].closed = 1
    /\ pc = "library" =>
          \A m \in DOMAIN heap.mats :
              heap.mats[m].closed = (IF m \in Cached(lib) THEN 0 ELSE 1)

\* The library was torn down with a solid and a ghost material in its cache
\* after freeMaterial had released another material.
C11_Witness ==
    /\ pc = "deleted"
    /\ \E m \in Cached(lib) : heap.mats[m].transparent
    /\ \E m \in Cached(lib) : ~heap.mats[m].transparent
    /\ \E m \in DOMAIN heap.mats : m \notin Cached(lib)

\* The step freed material `freed`, and nothing else: it left the cache and
\* was closed once more, every other material is cached and closed as before.
FreedOnly(freed) ==
    /\ Cached(lib') = Cached(lib) \ {freed}
    /\ heap'.mats[freed].closed = heap.mats[freed].closed + 1
    /\ \A m \in (DOMAIN heap.mats) \ {freed} : heap'.mats[m] = heap.mats[m]
    /\ \A k \in DOMAIN lib'.materials : lib'.materials[k] = lib.materials[k]

\* C21: a successful freeMaterial(m), for m a material the cache holds,
\* solid or ghost, removes from the cache and closes m and nothing else:
\* every other cached material stays cached and open, and freeing a ghost
\* neither removes nor closes the solid material of its descriptor.
C21_FreeMaterialReleasesOnlyItsArgument ==
    [][(ret'.op = "freeMaterial" /\ ret'.error = "none" /\ ret'.arg \in Cached(lib))
         => FreedOnly(ret'.arg)]_vars

\* What the code does: a successful freeMaterial(m) releases the material
\* cached under the solid key of m's descriptor and nothing else; for m
\* cached under a ghost key that is the solid material of the descriptor,
\* and m stays cached and open.
FreeMaterialReleasesSolidOfDescriptor ==
    [][(ret'.op = "freeMaterial" /\ ret'.error = "none") =>
          /\ FreedOnly(lib.materials[MangledNameForMaterial(FALSE, heap.mats[ret'.arg])])
          /\ \A k \in DOMAIN lib.materials :
                (lib.materials[k] = ret'.arg /\ k[1] = "ghost") =>
                   /\ lib.materials[MangledNameForMaterial(FALSE, heap.mats[ret'.arg])] # ret'.arg
                   /\ ret'.arg \in Cached(lib')
                   /\ heap'.mats[ret'.arg].closed = 0]_vars
(***************************************************************************)
(* Properties of ViewerBase (checked under Spec).                          *)
(***************************************************************************)

\* The attributes of the current mesh's geometry in heap H of viewer V.
CurrAttrs(H, V) ==
    IF V.currMesh = NoObj THEN EmptyDict
    ELSE H.geoms[H.objs[V.currMesh].geometry].attributes

DictValues(d) == {d[k] : k \in DOMAIN d}

\* The buffers ever allocated under an attribute key.
BufsOf(H, key) == {b \in DOMAIN H.bufs : b[1] = key}

\* C1: after every call, no attribute key is both attached to the current
\* geometry and in bufferAttributeStash, no stashed buffer is attached to the
\* current geometry, and the assertion of
\* allocateUpdateOrStashBufferAttribute has not failed.
C1_StashLiveExclusive ==
    /\ (DOMAIN CurrAttrs(heap, viewer)) \cap (DOMAIN viewer.bufferAttributeStash) = {}
    /\ DictValues(CurrAttrs(heap, viewer)) \cap DictValues(viewer.bufferAttributeStash) = {}
    /\ ret.error # "AssertionError"

\* A call took the color buffer out of the stash and put the uv buffer in.
C1_Witness ==
    /\ ret.op = "setGeometry"
    /\ ret.error = "none"
    /\ "color" \in ret.value
    /\ "color" \in DOMAIN CurrAttrs(heap, viewer)
    /\ "uv" \in DOMAIN viewer.bufferAttributeStash

\* C5: no call allocates an index or color buffer while the stash holds one
\* for that key, and a stashed buffer a call re-attaches is the very buffer
\* that was stashed; a non-preserving update allocates none while the
\* current geometry or the stash holds one; so as long as only non-preserving
\* updates follow the construction, one index buffer and at most one color
\* buffer are ever allocated, whatever the number of on/off cycles.
C5_StashedBufferReused ==
    [][ret'.op = "setGeometry" =>
         \A key \in {"index", "color"} :
           /\ key \in DOMAIN viewer.bufferAttributeStash =>
                /\ BufsOf(heap', key) = BufsOf(heap, key)
                /\ key \in DOMAIN CurrAttrs(heap', viewer') =>
                     CurrAttrs(heap', viewer')[key] = viewer.bufferAttributeStash[key]
           /\ (~ret'.arg.preserveExisting /\ key \in DOMAIN CurrAttrs(heap, viewer)) =>
                BufsOf(heap', key) = BufsOf(heap, key)
           /\ Cardinality(MainMeshes(heap')) = 1 =>
                /\ Cardinality(BufsOf(heap', "index")) = 1
                /\ Cardinality(BufsOf(heap', "color")) <= 1]_vars

\* A non-preserving update turned the scalar field on again and took the
\* color buffer back from the stash; no preserving update ever happened.
C5_Witness ==
    /\ ret.op = "setGeometry"
    /\ ~ret.arg.preserveExisting
    /\ "color" \in ret.value
    /\ viewer.scalarField # NoField
    /\ Cardinality(MainMeshes(heap)) = 1
    /\ CurrAttrs(heap, viewer)["color"] = <<"color", 1>>

\* The meshes that are or were ghosts: every main or glyph mesh that is not
\* the current mesh or the viewer's vector field mesh.
FormerMeshes(H, V) ==
    {m \in DOMAIN H.objs : m[1] \in {"main", "arrows"}
                           /\ m # V.currMesh /\ m # V.vectorFieldMesh}

\* Mesh m, its geometry and each attribute buffer of it were closed n times.
ClosedTimes(H, m, n) ==
    LET g == H.objs[m].geometry
    IN  /\ H.objs[m].closed = n
        /\ H.geoms[g].closed = n
        /\ H.geoms[g].disposed = n
        /\ \A b \in DictValues(H.geoms[g].attributes) : H.bufs[b].closed = n

\* The call raised at line 219, on the size of its scalar field.
ScalarRejected(call) == call.error # "none" /\ call.line = 219

\* C6: a non-preserving update that gets past the validation of its scalar
\* field empties the ghost group and disposes every ghost mesh (the mesh,
\* its geometry, each of its attribute buffers) exactly once; an update that
\* raises on its scalar field does not touch the ghosts; and after every
\* later call, teardown included, a former ghost is either still in the
\* ghost group and open, or disposed exactly once.
C6_ValidUpdatePurgesGhosts ==
    [][/\ (ret'.op = "setGeometry" /\ ~ret'.arg.preserveExisting /\ ~ScalarRejected(ret')) =>
             /\ viewer'.ghostMeshes = {}
             /\ \A m \in viewer.ghostMeshes : ClosedTimes(heap', m, 1)
       /\ (ret'.op = "setGeometry" /\ ScalarRejected(ret')) =>
             /\ viewer'.ghostMeshes = viewer.ghostMeshes
             /\ heap' = heap
       /\ \A m \in FormerMeshes(heap', viewer') :
             \/ m \in viewer'.ghostMeshes /\ ClosedTimes(heap', m, 0)
             \/ m \notin viewer'.ghostMeshes /\ ClosedTimes(heap', m, 1)]_vars

\* A non-preserving update purged a ghost mesh and a ghost glyph mesh, and
\* the viewer was torn down afterwards.
C6_Witness ==
    /\ pc = "torn"
    /\ \E m \in FormerMeshes(heap, viewer) : m[1] = "main" /\ ClosedTimes(heap, m, 1)
    /\ \E m \in FormerMeshes(heap, viewer) : m[1] = "arrows" /\ ClosedTimes(heap, m, 1)

\* C7: after teardown every mesh (ghost, live, hidden vector field,
\* wireframe or points mesh), every geometry (one shared with the wireframe
\* or points mesh too) and every buffer attribute, attached to a geometry or
\* stashed, has been closed exactly once, and no stashed buffer is an
\* attribute of a geometry.
C7_TeardownClosesOnce ==
    pc = "torn" =>
        /\ \A m \in DOMAIN heap.objs : heap.objs[m].closed = 1
        /\ \A g \in DOMAIN heap.geoms :
              /\ heap.geoms[g].closed = 1
              /\ heap.geoms[g].disposed = 1
              /\ DictValues(heap.geoms[g].attributes)
                    \cap DictValues(viewer.bufferAttributeStash) = {}
        /\ \A b \in DOMAIN heap.bufs : heap.bufs[b].closed = 1

\* Teardown of a viewer with a ghost, a hidden wireframe mesh and a points
\* mesh that share the current geometry, and a stashed buffer.
C7_Witness ==
    /\ pc = "torn"
    /\ viewer.wireframeMesh # NoObj
    /\ viewer.pointsMesh # NoObj
    /\ ~viewer.shouldShowWireframe
    /\ heap.objs[viewer.wireframeMesh].geometry = heap.objs[viewer.currMesh].geometry
    /\ heap.objs[viewer.pointsMesh].geometry = heap.objs[viewer.currMesh].geometry
    /\ Cardinality(MainMeshes(heap)) = 2
    /\ DOMAIN viewer.bufferAttributeStash # {}

\* C8: a size mismatch of the scalar or the vector field is raised before
\* setGeometry has changed the scene: the current mesh is not a ghost, the
\* ghost group is not purged, no buffer attribute is allocated or stashed,
\* and rendering is not paused; the groups, the widgets, the stash and the
\* renderer are as before the call.
C8_MismatchRaisedBeforeAnyChange ==
    [][(ret'.op = "setGeometry" /\ ret'.error = "SizeMismatch") =>
          /\ viewer'.currMesh = viewer.currMesh
          /\ viewer'.meshes = viewer.meshes
          /\ viewer'.ghostMeshes = viewer.ghostMeshes
          /\ viewer'.bufferAttributeStash = viewer.bufferAttributeStash
          /\ heap' = heap
          /\ renderer' = renderer]_vars


(***************************************************************************)
(* Further properties of ViewerBase (checked under Spec).                  *)
(***************************************************************************)

\* The step is a call of the viewer: the one step that is none assigns
\* avoidRedrawFlicker and leaves `ret` as the last call wrote it.
ViewerCalled == viewer'.avoidRedrawFlicker = viewer.avoidRedrawFlicker

\* The step is a call of setGeometry that got past the validation of line 219.
SetGeometryRan == ViewerCalled /\ ret'.op = "setGeometry" /\ ~ScalarRejected(ret')

\* What a preserving update does to the current mesh `old`, its material
\* apart: old and a displayed vector field mesh move from the live group to
\* the ghost group, a new current mesh with a new geometry is built, and
\* every ghost, old or new, stays in the ghost group undisposed.
GhostedAndRebuilt(old) ==
    /\ old \notin viewer'.meshes
    /\ old \in viewer'.ghostMeshes
    /\ (viewer.vectorFieldMesh \in viewer.meshes =>
           /\ viewer.vectorFieldMesh \in viewer'.ghostMeshes
           /\ viewer.vectorFieldMesh \notin viewer'.meshes)
    /\ viewer'.currMesh # NoObj
    /\ viewer'.currMesh \notin DOMAIN heap.objs
    /\ viewer'.currMesh \in viewer'.meshes
    /\ heap'.objs[viewer'.currMesh].geometry \notin DOMAIN heap.geoms
    /\ viewer.ghostMeshes \subseteq viewer'.ghostMeshes
    /\ Cardinality(viewer'.ghostMeshes) > Cardinality(viewer.ghostMeshes)
    /\ \A m \in viewer'.ghostMeshes : ClosedTimes(heap', m, 0)

\* Mesh m carries the library's translucent material.
HasGhostMaterial(H, L, m) ==
    /\ H.objs[m].material \in Cached(L)
    /\ H.mats[H.objs[m].material].transparent
    /\ H.mats[H.objs[m].material].opacity = 25

\* Only teardown and a non-preserving update take a mesh out of the ghost
\* group or dispose a ghost.
GhostsKeptUntilPurge ==
    (\E m \in viewer.ghostMeshes : m \notin viewer'.ghostMeshes \/ ~ClosedTimes(heap', m, 0))
    => (ret'.op = "del" \/ (ret'.op = "setGeometry" /\ ~ret'.arg.preserveExisting))

\* C12: a preserving update on a viewer with a current mesh moves that mesh
\* from the live group to the ghost group and gives it the library's
\* translucent ghost material, whether the mesh is textured or not; a
\* displayed vector field mesh moves to the ghost group too; a new current
\* mesh is built; the ghost group grows with every such update and no ghost
\* is disposed before the next non-preserving update.
C12_PreservingUpdateGhostsCurrent ==
    [][/\ (SetGeometryRan /\ ret'.arg.preserveExisting /\ viewer.currMesh # NoObj) =>
             /\ GhostedAndRebuilt(viewer.currMesh)
             /\ HasGhostMaterial(heap', lib', viewer.currMesh)
       /\ GhostsKeptUntilPurge]_vars

\* The same with the material as the code leaves it: translucent when the
\* material of the mesh held no texture, the mesh's own opaque material when
\* it held one.
PreservingUpdateGhostsUntextured ==
    [][/\ (SetGeometryRan /\ ret'.arg.preserveExisting /\ viewer.currMesh # NoObj) =>
             /\ GhostedAndRebuilt(viewer.currMesh)
             /\ IF ExtractMaterialDescriptors(heap.mats[heap.objs[viewer.currMesh].material])[2] = None
                THEN HasGhostMaterial(heap', lib', viewer.currMesh)
                ELSE /\ heap'.objs[viewer.currMesh].material = heap.objs[viewer.currMesh].material
                     /\ ~heap'.mats[heap'.objs[viewer.currMesh].material].transparent
       /\ GhostsKeptUntilPurge]_vars

\* The step is a call of setGeometry that returned normally.
SetGeometryReturned == ViewerCalled /\ ret'.op = "setGeometry" /\ ret'.error = "none"

\* The attributes the call found on the geometry it updates: those of the
\* current geometry when the mesh is updated in place, none when a mesh is
\* built.
UpdatedAttrs ==
    IF ret'.arg.preserveExisting THEN EmptyDict ELSE CurrAttrs(heap, viewer)

\* C13: after a setGeometry that returned normally the current geometry
\* has a color attribute exactly when the call supplied a scalar field and
\* a uv attribute exactly when it supplied a texture map; the material of
\* the current mesh is the open, opaque material the library caches under
\* the key of (scalar field supplied, texture); a color or uv buffer that
\* the updated geometry held and the frame does not need is in the stash
\* afterwards, not closed.
C13_AttributesAndMaterialFollowCall ==
    [][SetGeometryReturned =>
         LET attrs == CurrAttrs(heap', viewer')
             name  == MangledMaterialName(FALSE, viewer'.scalarField # NoField,
                                          ret'.arg.textureMap)
             mat   == heap'.objs[viewer'.currMesh].material
         IN  /\ "color" \in DOMAIN attrs <=> viewer'.scalarField # NoField
             /\ "uv" \in DOMAIN attrs <=> ret'.arg.textureMap # None
             /\ name \in DOMAIN lib'.materials
             /\ mat = lib'.materials[name]
             /\ heap'.mats[mat].closed = 0
             /\ ~heap'.mats[mat].transparent
             /\ heap'.mats[mat].vertexColors = "VertexColors" <=> viewer'.scalarField # NoField
             /\ ~viewer'.isLineMesh => heap'.mats[mat].map = ret'.arg.textureMap
             /\ \A key \in {"color", "uv"} :
                   (key \in DOMAIN UpdatedAttrs /\ key \notin DOMAIN attrs) =>
                       /\ key \in DOMAIN viewer'.bufferAttributeStash
                       /\ viewer'.bufferAttributeStash[key] = UpdatedAttrs[key]
                       /\ heap'.bufs[UpdatedAttrs[key]].closed = 0]_vars

\* An update in place with a scalar field and without a texture map left
\* the uv buffer of the frame before in the stash, open.
C13_Witness ==
    /\ ret.op = "setGeometry"
    /\ ret.error = "none"
    /\ ~ret.arg.preserveExisting
    /\ ret.arg.textureMap = None
    /\ viewer.scalarField # NoField
    /\ "uv" \in DOMAIN viewer.bufferAttributeStash
    /\ heap.bufs[viewer.bufferAttributeStash["uv"]].closed = 0
    /\ heap.objs[viewer.currMesh].material = lib.materials[<<"solid", TRUE, None>>]

\* The wireframe and the points mesh that exist, shown or hidden.
OverlayMeshes(V) == {o \in {V.wireframeMesh, V.pointsMesh} : o # NoObj}

\* C14: between the calls of a constructed viewer, whatever the order of
\* showWireframe, showPoints and preserving or non-preserving updates
\* (successful or not), the wireframe mesh and the points mesh, once they
\* exist, have the geometry of the current mesh; that geometry is not
\* disposed and is the geometry of no ghost mesh.
C14_OverlaysShareCurrentGeometry ==
    pc = "ready" =>
        \A o \in OverlayMeshes(viewer) :
            LET g == heap.objs[o].geometry
            IN  /\ viewer.currMesh # NoObj
                /\ g = heap.objs[viewer.currMesh].geometry
                /\ heap.geoms[g].disposed = 0
                /\ heap.geoms[g].closed = 0
                /\ \A m \in viewer.ghostMeshes : heap.objs[m].geometry # g

\* A preserving update built a second geometry after the wireframe and the
\* points mesh had been made over the first, which now belongs to a ghost.
C14_Witness ==
    /\ pc = "ready"
    /\ ret.op = "setGeometry"
    /\ ret.arg.preserveExisting
    /\ viewer.wireframeMesh # NoObj
    /\ viewer.pointsMesh # NoObj
    /\ viewer.ghostMeshes = {<<"main", 1>>}
    /\ heap.objs[viewer.wireframeMesh].geometry = <<"main", 2>>
    /\ heap.objs[viewer.pointsMesh].geometry = <<"main", 2>>

\* The glyph meshes in the live group.
LiveArrows(V) == {m \in V.meshes : m[1] = "arrows"}

\* C15: after a setGeometry that returned normally, preserving or not, the
\* live group holds a glyph mesh exactly when the call supplied a vector
\* field, and then it is the viewer's vector field mesh and no other; when
\* none was supplied a glyph mesh that was displayed before the call has
\* left the live group, for the ghost group if the update was preserving.
C15_GlyphMeshShownIffFieldSupplied ==
    [][SetGeometryReturned =>
         /\ LiveArrows(viewer') # {} <=> viewer'.vectorField # NoField
         /\ LiveArrows(viewer') \subseteq {viewer'.vectorFieldMesh}
         /\ (viewer'.vectorField = NoField /\ viewer.vectorFieldMesh \in viewer.meshes) =>
               /\ viewer.vectorFieldMesh \notin viewer'.meshes
               /\ ret'.arg.preserveExisting <=> viewer.vectorFieldMesh \in viewer'.ghostMeshes]_vars

\* An update in place without a vector field hid the glyph mesh that the
\* call before had displayed.
C15_Witness ==
    /\ ret.op = "setGeometry"
    /\ ret.error = "none"
    /\ ~ret.arg.preserveExisting
    /\ viewer.vectorField = NoField
    /\ viewer.vectorFieldMesh # NoObj
    /\ viewer.vectorFieldMesh \notin viewer.meshes
    /\ heap.objs[viewer.vectorFieldMesh].closed = 0

\* C16: with avoidRedrawFlicker set, a setGeometry that gets past the
\* validation of its scalar field pauses rendering before it converts the
\* current mesh to a ghost or purges the ghost group, and resumes only after
\* the vector field mesh is attached or detached: the renderer draws none of
\* the changes (ghosts, mesh, overlays, vector field) as they are made, and
\* rendering is on again when the call returns.
C16_PausedAroundGhostsToVectorField ==
    [][(SetGeometryRan /\ viewer.avoidRedrawFlicker) =>
          /\ ret'.drawn = {}
          /\ ret'.error = "none" => ~renderer'.paused]_vars

\* What the code does with avoidRedrawFlicker set: rendering is paused from
\* the building of the mesh to the vector field, so only the conversion to
\* a ghost or the purge of the ghost group is drawn on its own, and that
\* whenever it changes the scene while rendering is not paused already.
PausedAroundMeshToVectorField ==
    [][(SetGeometryRan /\ viewer.avoidRedrawFlicker) =>
          /\ ret'.drawn \subseteq {"ghosts"}
          /\ ("ghosts" \in ret'.drawn) <=>
                /\ ~renderer.paused
                /\ \/ ret'.arg.preserveExisting /\ viewer.currMesh # NoObj
                   \/ viewer.ghostMeshes # {}
          /\ ret'.error = "none" => ~renderer'.paused]_vars

\* The widgets ever built under a tag.
Built(widgets, tag) == {w \in DOMAIN widgets : w[1] = tag}

\* Overlay mesh o is in the live group after the step exactly when it was
\* before, and the viewer's overlay is still o.
OverlayKept(o, oAfter) ==
    /\ oAfter = o
    /\ o \in viewer'.meshes <=> o \in viewer.meshes

\* C17: whatever the sequence of showWireframe, showPoints and updates, at
\* most one wireframe mesh, one wireframe material, one points mesh and one
\* points material are ever built, and showWireframe and showPoints build
\* no geometry and no buffer; the call showWireframe(b) (showPoints(b))
\* leaves the wireframe (points) mesh in the live group exactly when b is
\* true and every other call before teardown leaves its membership as it
\* was; shouldShowWireframe is that membership.
C17_OverlaysBuiltOnceShownOnRequest ==
    [][/\ Cardinality(Built(heap'.objs, "wireframe")) <= 1
       /\ Cardinality(Built(heap'.objs, "points")) <= 1
       /\ Cardinality(Built(heap'.mats, <<"wireframe", FALSE, None>>)) <= 1
       /\ Cardinality(Built(heap'.mats, <<"points", FALSE, None>>)) <= 1
       /\ (ViewerCalled /\ ret'.op \in {"showWireframe", "showPoints"}) =>
             /\ DOMAIN heap'.geoms = DOMAIN heap.geoms
             /\ DOMAIN heap'.bufs = DOMAIN heap.bufs
       /\ (ViewerCalled /\ ret'.op = "showWireframe") =>
             /\ viewer'.wireframeMesh \in viewer'.meshes <=> ret'.arg
             /\ ret'.arg => viewer'.wireframeMesh # NoObj
             /\ OverlayKept(viewer.pointsMesh, viewer'.pointsMesh)
       /\ (ViewerCalled /\ ret'.op = "showPoints") =>
             /\ viewer'.pointsMesh \in viewer'.meshes <=> ret'.arg
             /\ ret'.arg => viewer'.pointsMesh # NoObj
             /\ OverlayKept(viewer.wireframeMesh, viewer'.wireframeMesh)
       /\ (ViewerCalled /\ ret'.op = "setGeometry") =>
             /\ OverlayKept(viewer.wireframeMesh, viewer'.wireframeMesh)
             /\ OverlayKept(viewer.pointsMesh, viewer'.pointsMesh)
       /\ pc' = "ready" =>
             (viewer'.shouldShowWireframe <=> viewer'.wireframeMesh \in viewer'.meshes)]_vars

\* After the wireframe was shown and hidden again and the points shown, a
\* preserving update left the one wireframe mesh hidden and the one points
\* mesh displayed.
C17_Witness ==
    /\ pc = "ready"
    /\ ret.op = "setGeometry"
    /\ Cardinality(MainMeshes(heap)) = 2
    /\ viewer.wireframeMesh # NoObj
    /\ viewer.wireframeMesh \notin viewer.meshes
    /\ ~viewer.shouldShowWireframe
    /\ viewer.pointsMesh \in viewer.meshes
    /\ Cardinality(Built(heap.objs, "wireframe")) = 1
    /\ Cardinality(Built(heap.mats, <<"points", FALSE, None>>)) = 1

\* The widgets of `after` that `before` does not have.
NewWidgets(before, after) == (DOMAIN after) \ (DOMAIN before)

\* C18: a non-preserving update of a viewer with a current mesh leaves the
\* current mesh, its geometry and the position and normal buffer attributes
\* of that geometry the same objects, open; setGeometry builds no mesh, no
\* geometry and no position or normal buffer for it (the only mesh and
\* geometry the call can add are the glyph mesh getArrows returns for a
\* vector field, none without one); the current mesh stays in the live
\* group.
C18_UpdateInPlaceKeepsIdentity ==
    [][(ViewerCalled /\ ret'.op = "setGeometry" /\ ~ret'.arg.preserveExisting
          /\ viewer.currMesh # NoObj) =>
         LET cur == viewer.currMesh
             geom == heap.objs[cur].geometry
         IN  /\ viewer'.currMesh = cur
             /\ heap'.objs[cur].geometry = geom
             /\ heap'.objs[cur].closed = 0
             /\ heap'.geoms[geom].closed = 0 /\ heap'.geoms[geom].disposed = 0
             /\ \A key \in {"position", "normal"} :
                   /\ heap'.geoms[geom].attributes[key] = heap.geoms[geom].attributes[key]
                   /\ heap'.bufs[heap'.geoms[geom].attributes[key]].closed = 0
                   /\ Built(heap'.bufs, key) = Built(heap.bufs, key)
             /\ NewWidgets(heap.objs, heap'.objs) \subseteq Built(heap'.objs, "arrows")
             /\ NewWidgets(heap.geoms, heap'.geoms) \subseteq Built(heap'.geoms, "arrows")
             /\ viewer'.vectorField = NoField =>
                   /\ NewWidgets(heap.objs, heap'.objs) = {}
                   /\ NewWidgets(heap.geoms, heap'.geoms) = {}
             /\ cur \in viewer.meshes
             /\ cur \in viewer'.meshes
             /\ cur \notin viewer'.ghostMeshes]_vars

\* The second mesh of the viewer, built by a preserving update, was updated
\* in place by a non-preserving update that purged the ghost of the first.
C18_Witness ==
    /\ pc = "ready"
    /\ ret.op = "setGeometry"
    /\ ret.error = "none"
    /\ ~ret.arg.preserveExisting
    /\ viewer.currMesh = <<"main", 2>>
    /\ viewer.ghostMeshes = {}
    /\ heap.objs[<<"main", 1>>].closed = 1
    /\ CurrAttrs(heap, viewer)["position"] = <<"position", 2>>
    /\ Cardinality(MainMeshes(heap)) = 2

\* The main meshes in the live group.
LiveMainMeshes(V) == {m \in V.meshes : m[1] = "main"}

\* C19: from the constructor's setGeometry on, between the calls of the
\* viewer the current mesh exists, is in the live group and not in the
\* ghost group, is the one main mesh of the live group (the others in it
\* are overlay and glyph meshes), and no mesh is in both groups.
C19_OneCurrentMeshInLiveGroup ==
    pc = "ready" =>
        /\ viewer.currMesh # NoObj
        /\ viewer.currMesh \in viewer.meshes
        /\ viewer.currMesh \notin viewer.ghostMeshes
        /\ LiveMainMeshes(viewer) = {viewer.currMesh}
        /\ viewer.meshes \cap viewer.ghostMeshes = {}

\* After a preserving update the first mesh and its glyph mesh are ghosts
\* while the live group holds the second mesh, a new glyph mesh and the
\* wireframe.
C19_Witness ==
    /\ pc = "ready"
    /\ ret.op = "setGeometry"
    /\ ret.error = "none"
    /\ viewer.currMesh = <<"main", 2>>
    /\ viewer.ghostMeshes = {<<"main", 1>>, <<"arrows", 1>>}
    /\ viewer.meshes = {<<"main", 2>>, <<"arrows", 2>>, viewer.wireframeMesh}
    /\ viewer.wireframeMesh # NoObj

\* The geometries of the meshes the viewer holds: of the current mesh, of
\* each ghost and of the vector field mesh, displayed or hidden.
HeldGeometries(H, V) ==
    {H.objs[m].geometry :
        m \in ({V.currMesh, V.vectorFieldMesh} \cup V.ghostMeshes) \ {NoObj}}

\* bufferAttributeStash as an owner of buffers, beside the geometries.
Stash == <<"stash", 0>>

\* The owners of buffer attribute b: the held geometries it is attached to,
\* and the stash if it is stashed.
Owners(H, V, b) ==
    {g \in HeldGeometries(H, V) : b \in DictValues(H.geoms[g].attributes)}
    \cup (IF b \in DictValues(V.bufferAttributeStash) THEN {Stash} ELSE {})

\* C20: between the calls of the viewer, whatever preserving and
\* non-preserving updates came before, every open buffer attribute has
\* exactly one owner: the current geometry, the geometry of one ghost mesh
\* or the stash (a glyph buffer: the one glyph geometry it was built for);
\* a closed buffer was closed once and is attached neither to the current
\* geometry nor held in the stash, so the purge of the ghosts closes no
\* buffer of the current geometry or of the stash, and a buffer a new mesh
\* took from the stash is not attached to a ghost.
C20_BufferHasOneOwner ==
    pc = "ready" =>
        \A b \in DOMAIN heap.bufs :
            IF heap.bufs[b].closed = 0
            THEN /\ Cardinality(Owners(heap, viewer, b)) = 1
                 /\ b[1] \in ArrowKeys <=>
                       \E g \in Owners(heap, viewer, b) : g[1] = "arrows"
            ELSE /\ heap.bufs[b].closed = 1
                 /\ Owners(heap, viewer, b) = {}

\* The color buffer of the first mesh was stashed, taken from the stash by
\* the second mesh that a preserving update built, and is open on the
\* current geometry after the ghost of the first mesh was purged.
C20_Witness ==
    /\ pc = "ready"
    /\ viewer.currMesh = <<"main", 2>>
    /\ viewer.ghostMeshes = {}
    /\ ClosedTimes(heap, <<"main", 1>>, 1)
    /\ "color" \in DOMAIN CurrAttrs(heap, viewer)
    /\ CurrAttrs(heap, viewer)["color"] = <<"color", 1>>
    /\ heap.bufs[<<"color", 1>>].closed = 0
    /\ "uv" \in DOMAIN viewer.bufferAttributeStash

\* C22: with avoidRedrawFlicker set, every setGeometry that paused
\* rendering has resumed it when the call ends, whether it returns or
\* raises: rendering is never paused after the call.
C22_RenderingResumedAfterEveryCall ==
    [][(ViewerCalled /\ ret'.op = "setGeometry" /\ viewer.avoidRedrawFlicker)
         => ~renderer'.paused]_vars

\* What the code does: rendering is resumed by the calls that return; a call
\* that raises on the size of its vector field has paused rendering and
\* leaves it paused, and one that raises on its scalar field leaves the
\* renderer as it found it.
RenderingResumedUnlessRaised ==
    [][(ViewerCalled /\ ret'.op = "setGeometry" /\ viewer.avoidRedrawFlicker) =>
          /\ ret'.error = "none" => ~renderer'.paused
          /\ (ret'.error # "none" /\ ret'.line = 322) => renderer'.paused
          /\ ScalarRejected(ret') => renderer'.paused = renderer.paused]_vars

\* The geometries built for main meshes.
MainGeometries(H) == {g \in DOMAIN H.geoms : g[1] = "main"}

Gathered(out, in, idxs) ==
    /\ Len(out) = Len(idxs)
    /\ \A j \in DOMAIN idxs : idxs[j] < Len(in) /\ out[j] = in[idxs[j] + 1]

\* C9: for F faces, any vertex count N and any index array with entries in
\* 0..N-1, the replication with a color per face completes without error
\* and leaves position, normal and uv arrays of 3F entries whose entry i is
\* the attribute of vertex index[i], a color array of 3F entries whose
\* entries 3f, 3f+1, 3f+2 are face f's color, and the index array
\* 0, 1, ..., 3F-1.
C9_ReplicateCompletesWithCorners ==
    (pc = "replicated" /\ ret.arg.perTriColor) =>
        LET in == ret.arg.attr.at
            F == ret.arg.F
        IN  /\ ret.error = "none"
            /\ \A key \in (DOMAIN attr.at) \ {"index", "color"} :
                  /\ Len(attr.at[key]) = 3 * F
                  /\ Gathered(attr.at[key], in[key], in["index"])
            /\ Len(attr.at["color"]) = 3 * F
            /\ \A f \in 0 .. F - 1 : \A k \in 1 .. 3 :
                  attr.at["color"][3 * f + k] = in["color"][f + 1]
            /\ attr.at["index"] = Arange(3 * F)

\* The replication raises exactly when the index array refers to a vertex
\* numbered 3F or more, and is as C9 describes otherwise.
ReplicateFailsOnHighVertex ==
    (pc = "replicated" /\ ret.arg.perTriColor) =>
        LET in == ret.arg.attr.at
            F == ret.arg.F
        IN  /\ ret.error = "IndexError" <=> \E j \in DOMAIN in["index"] : in["index"][j] >= 3 * F
            /\ ret.error = "none" =>
                 /\ \A key \in (DOMAIN attr.at) \ {"index", "color"} :
                       Gathered(attr.at[key], in[key], in["index"])
                 /\ attr.at["color"] = Repeat3(in["color"])
                 /\ attr.at["index"] = Arange(3 * F)

(***************************************************************************)
(* Properties of TextureMap (checked under SpecTexture).                   *)
(***************************************************************************)

IsPowerOfTwo(s) == \E k \in 0 .. s : Exp2(k) = s

\* x = u * a / b, for rationals x and u.
IsScaled(x, u, a, b) == x[1] * u[2] * b = u[1] * a * x[2]

\* C10: an h x w image is padded to a square of side s = max(w, h), or the
\* least power of two >= max(w, h) when powerOfTwo is requested; the padding
\* is on the top and the right only, original pixel (r, c) ending at
\* (r + s - h, c); every UV (u, v), taken after the optional normalization,
\* becomes (u*w/s, v*h/s).  For h=3, w=5: s = 5 (8 with powerOfTwo) and UV
\* (1,1) becomes (1, 3/5).
C10_TexturePaddedUVRescaled ==
    pc = "textured" =>
        LET a == ret.arg
            h == Height(a.tex)
            w == Width(a.tex)
            data == tm.dataTex.data
            s == Height(data)
            uvIn == IF a.normalizeUV THEN NormalizeUV(a.uv) ELSE a.uv
        IN  /\ \A r \in DOMAIN data : Cardinality(DOMAIN data[r]) = s
            /\ DOMAIN data = 0 .. s - 1
            /\ ~a.powerOfTwo => s = Max(w, h)
            /\ a.powerOfTwo => IsPowerOfTwo(s) /\ s >= Max(w, h) /\ (s = 1 \/ s \div 2 < Max(w, h))
            /\ \A r \in 0 .. h - 1 : \A c \in 0 .. w - 1 : data[r + s - h][c] = a.tex[r][c]
            /\ \A r \in 0 .. s - 1 : \A c \in 0 .. s - 1 :
                  (r < s - h \/ c >= w) => data[r][c] = PadValue
            /\ DOMAIN tm.uv = DOMAIN a.uv
            /\ \A i \in DOMAIN a.uv :
                  IF uvIn[i][1] = NaN THEN tm.uv[i][1] = NaN
                  ELSE IsScaled(tm.uv[i][1], uvIn[i][1], w, s)
            /\ \A i \in DOMAIN a.uv :
                  IF uvIn[i][2] = NaN THEN tm.uv[i][2] = NaN
                  ELSE IsScaled(tm.uv[i][2], uvIn[i][2], h, s)
            /\ (h = 3 /\ w = 5) =>
                  /\ s = (IF a.powerOfTwo THEN 8 ELSE 5)
                  /\ \A i \in DOMAIN a.uv :
                        (~a.normalizeUV /\ ~a.powerOfTwo /\ a.uv[i] = <<Rat(1, 1), Rat(1, 1)>>)
                        => tm.uv[i] = <<Rat(1, 1), Rat(3, 5)>>

\* The 3 x 5 image padded to 5 x 5 with a UV (1,1) that became (1, 3/5).
C10_Witness ==
    /\ pc = "textured"
    /\ Height(ret.arg.tex) = 3 /\ Width(ret.arg.tex) = 5
    /\ ~ret.arg.powerOfTwo /\ ~ret.arg.normalizeUV
    /\ Height(tm.dataTex.data) = 5
    /\ tm.dataTex.data[2][0] = ret.arg.tex[0][0]
    /\ tm.dataTex.data[0][0] = PadValue
    /\ ret.arg.uv[1] = <<Rat(1, 1), Rat(1, 1)>>
    /\ tm.uv[1] = <<Rat(1, 1), Rat(3, 5)>>

====
